---- MODULE Spec2Model ----
(***************************************************************************)
(* Model of the MT5 login/dashboard client.                                *)
(*                                                                         *)
(* The Dashboard component (components/Dashboard.tsx) is the polling       *)
(* scheduler: React state, two refs, the interval armed by                 *)
(* startRealTimeUpdates, the visibilitychange listener and the snapshot    *)
(* fetches that are outstanding.  One action per event handler; an action  *)
(* covers the handler, the re-render it causes and the effects React runs  *)
(* for that render (a click is a discrete event: React flushes the render  *)
(* and its effects before the next event is handled).  Spec is this part.   *)
(*                                                                         *)
(* SpecLogin is App with its loginToMT5 call (services/mt5Api.ts, App.tsx) *)
(* for every credentials value and every outcome of the login fetch;       *)
(* SpecFetch is one getAccountInfo call for every token and every pair of  *)
(* outcomes of its two reads.  Strings are sequences of characters.        *)
(***************************************************************************)
EXTENDS Integers, Sequences, FiniteSets, TLC

\* Number of snapshot fetches one run of the model may initiate.
MaxFetches == 4

\* intervalRef.current when no interval is recorded (useRef(null)).
NULL == 0

\* Period of the recurring timer, in milliseconds.
PollIntervalMs == 1000

\* accountInfo before the first published snapshot (useState(null)).
NoAccountInfo == [kind |-> "null"]

VARIABLES
    phase,            \* "init" (rendered, effects not yet run), "mounted", "unmounted"
    accountInfo,      \* useState: last published snapshot
    isLoading,        \* useState
    lastUpdated,      \* useState: clock value of the last publication
    isConnected,      \* useState
    updateCount,      \* useState
    isRealTimeActive, \* useState: the logical active flag
    intervalRef,      \* useRef: id of the recorded interval, or NULL
    mountedRef,       \* useRef
    timers,           \* intervals armed in the browser: [id, active, period], active
                      \* being the isRealTimeActive captured by the callback's closure
    listeners,        \* registered visibilitychange handlers: the isRealTimeActive
                      \* each one captured
    hidden,           \* document.hidden
    inflight,         \* fetchAccountInfo calls awaiting getAccountInfo
    fetchSeq,         \* number of fetches initiated so far
    clock,            \* logical time read by new Date()
    published,        \* history: seq numbers of the fetches published, in order
    dropped,          \* history: seq numbers of the fetches completed unpublished
    stoppedSeqs,      \* history: fetches issued by a start and outstanding at a toggle-off
    nTicks,           \* history: timer callbacks run
    everStopped,      \* history: stopRealTimeUpdates was called by toggle, hide or unmount
    lastEvent,        \* history: the handler that ran last
    isAuthenticated,  \* App useState
    authToken,        \* App useState: Null or the session token
    error,            \* App useState: Null or the message shown by the form
    appIsLoading,     \* App useState isLoading
    loginPc,          \* handleLogin: "idle", "awaiting" (the login fetch is out),
                      \* "returned" (loginToMT5 resolved, handleLogin not resumed)
    credentials,      \* the argument of the running loginToMT5 call
    requests,         \* the login requests that call has issued
    response,         \* what its fetch ended in
    loginResult,      \* the LoginResponse it resolved with
    callPc,           \* a getAccountInfo call taken alone: "idle", "awaiting" (its
                      \* two fetches are out), "returned"
    callToken,        \* its argument
    summaryOutcome,   \* what its summary fetch ended in
    detailsOutcome,   \* what its details fetch ended in
    snapshot,         \* the AccountInfo it resolved with
    callRequests      \* the requests it has issued

vars == <<phase, accountInfo, isLoading, lastUpdated, isConnected, updateCount,
          isRealTimeActive, intervalRef, mountedRef, timers, listeners, hidden,
          inflight, fetchSeq, clock, published, dropped, stoppedSeqs, nTicks,
          everStopped, lastEvent, isAuthenticated, authToken, error,
          appIsLoading, loginPc, credentials, requests, response, loginResult,
          callPc, callToken, summaryOutcome, detailsOutcome, snapshot,
          callRequests>>

\* The state of a getAccountInfo call taken alone.
callVars == <<callPc, callToken, summaryOutcome, detailsOutcome, snapshot,
              callRequests>>

\* The state of App and of its login call.
loginVars == <<isAuthenticated, authToken, error, appIsLoading, loginPc,
               credentials, requests, response, loginResult>>

\* The state of the Dashboard.
dashboardVars == <<phase, accountInfo, isLoading, lastUpdated, isConnected,
                   updateCount, isRealTimeActive, intervalRef, mountedRef, timers,
                   listeners, hidden, inflight, fetchSeq, clock, published,
                   dropped, stoppedSeqs, nTicks, everStopped, lastEvent>>

\* The part of the state the imperative helpers read and write.
Env == [timers |-> timers, intervalRef |-> intervalRef, mountedRef |-> mountedRef,
        isLoading |-> isLoading, inflight |-> inflight, fetchSeq |-> fetchSeq]

Commit(e) ==
    /\ timers' = e.timers
    /\ intervalRef' = e.intervalRef
    /\ mountedRef' = e.mountedRef
    /\ isLoading' = e.isLoading
    /\ inflight' = e.inflight
    /\ fetchSeq' = e.fetchSeq

----------------------------------------------------------------------------
\* Strings are sequences of one-character strings, so that trim, toLowerCase,
\* includes and the regular expression are computed on the characters.

\* The characters String.prototype.trim removes that the model uses.
Whitespace == {" ", "\t", "\n"}

Digits == {"0", "1", "2", "3", "4", "5", "6", "7", "8", "9"}

UpperCase == <<"A", "B", "C", "D", "E", "F", "G", "H", "I", "J", "K", "L", "M",
               "N", "O", "P", "Q", "R", "S", "T", "U", "V", "W", "X", "Y", "Z">>
LowerCase == <<"a", "b", "c", "d", "e", "f", "g", "h", "i", "j", "k", "l", "m",
               "n", "o", "p", "q", "r", "s", "t", "u", "v", "w", "x", "y", "z">>

RECURSIVE trimStart(_)
trimStart(s) ==
    IF s # <<>> /\ Head(s) \in Whitespace THEN trimStart(Tail(s)) ELSE s

RECURSIVE trimEnd(_)
trimEnd(s) ==
    IF s # <<>> /\ s[Len(s)] \in Whitespace
    THEN trimEnd(SubSeq(s, 1, Len(s) - 1))
    ELSE s

\* String.prototype.trim
trim(s) == trimEnd(trimStart(s))

toLowerCaseChar(c) ==
    IF \E i \in 1..26 : UpperCase[i] = c
    THEN LowerCase[CHOOSE i \in 1..26 : UpperCase[i] = c]
    ELSE c

\* String.prototype.toLowerCase
toLowerCase(s) == [i \in 1..Len(s) |-> toLowerCaseChar(s[i])]

\* String.prototype.includes
includes(s, k) ==
    \E i \in 0..(Len(s) - Len(k)) : SubSeq(s, i + 1, i + Len(k)) = k

\* /^\d+$/.test(s)
testDigits(s) == Len(s) >= 1 /\ \A i \in 1..Len(s) : s[i] \in Digits

\* Values: null, undefined, a string literal of the source, a string computed
\* at run time, and the template strings that embed the HTTP status.
Null == [kind |-> "null"]
Undefined == [kind |-> "undefined"]
Lit(s) == [kind |-> "literal", text |-> s]
Str(chars) == [kind |-> "string", chars |-> chars]
StatusMessage(prefix, status) ==
    [kind |-> "template", prefix |-> prefix, status |-> status]
StatusTextMessage(prefix, status, statusText) ==
    [kind |-> "template2", prefix |-> prefix, status |-> status,
     statusText |-> statusText]

\* JavaScript truthiness of such a value.
Truthy(v) ==
    /\ v.kind \notin {"null", "undefined"}
    /\ v.kind = "string" => v.chars # <<>>
    /\ v.kind = "literal" => v.text # ""

----------------------------------------------------------------------------
\* services/mt5Api.ts: login

MinTokenLength == 10

errorKeywords == {
    <<"e", "r", "r", "o", "r">>,
    <<"i", "n", "v", "a", "l", "i", "d">>,
    <<"f", "a", "i", "l", "e", "d">>,
    <<"d", "e", "n", "i", "e", "d">>,
    <<"u", "n", "a", "u", "t", "h", "o", "r", "i", "z", "e", "d">> }

\* Variant of validateToken that compares the token as it is with the
\* keywords.
validateToken_caseSensitive(token) ==
    IF token = <<>> \/ Len(token) < MinTokenLength
    THEN FALSE
    ELSE ~(\E keyword \in errorKeywords : includes(token, keyword))

validateToken(token) ==
    IF token = <<>> \/ Len(token) < MinTokenLength
    THEN FALSE
    ELSE LET lowerToken == toLowerCase(token)
         IN  ~(\E keyword \in errorKeywords : includes(lowerToken, keyword))

\* Variant of validateCredentials that tests the number format first.
validateCredentials_formatFirst(c) ==
    IF ~testDigits(trim(c.username))
    THEN Lit("Username must be a valid account number (numeric)")
    ELSE IF trim(c.username) = <<>> THEN Lit("Username is required")
    ELSE IF trim(c.password) = <<>> THEN Lit("Password is required")
    ELSE IF trim(c.server) = <<>> THEN Lit("Server is required")
    ELSE Null

validateCredentials(c) ==
    IF trim(c.username) = <<>> THEN Lit("Username is required")
    ELSE IF trim(c.password) = <<>> THEN Lit("Password is required")
    ELSE IF trim(c.server) = <<>> THEN Lit("Server is required")
    ELSE IF ~testDigits(trim(c.username))
    THEN Lit("Username must be a valid account number (numeric)")
    ELSE Null

\* Response bodies: the text, and what JSON.parse makes of it.
JsonError == [parse |-> "error"]
JsonNull == [parse |-> "null"]
JsonObject(message, err) == [parse |-> "object", message |-> message, error |-> err]

Body_token ==
    [text |-> <<"a", "1", "b", "2", "c", "3", "d", "4", "e", "5", "f", "6">>,
     json |-> JsonError]

Body_errorInvalidUser ==
    [text |-> <<"e", "r", "r", "o", "r", ":", " ", "i", "n", "v", "a", "l", "i",
                "d", " ", "u", "s", "e", "r">>,
     json |-> JsonError]

Body_empty ==
    [text |-> <<>>,
     json |-> JsonError]

Body_shortPadded ==
    [text |-> <<"a", "b", "c", " ", " ", " ", " ", " ", " ", " ">>,
     json |-> JsonError]

Body_spaces ==
    [text |-> <<" ", " ", " ", " ", " ", " ", " ", " ", " ", " ">>,
     json |-> JsonError]

Body_tokenPadded ==
    [text |-> <<" ", "a", "1", "b", "2", "c", "3", "d", "4", "e", "5", "f", "6",
                "\n">>,
     json |-> JsonError]

Body_accessDenied ==
    [text |-> <<"A", "C", "C", "E", "S", "S", " ", "D", "E", "N", "I", "E", "D",
                " ", "0", "1">>,
     json |-> JsonError]

Body_short ==
    [text |-> <<"s", "h", "o", "r", "t">>,
     json |-> JsonError]

Body_serverNotFound ==
    [text |-> <<"S", "e", "r", "v", "e", "r", " ", "n", "o", "t", " ", "f", "o",
                "u", "n", "d">>,
     json |-> JsonError]

Body_jsonMessage ==
    [text |-> <<"{", "\"", "m", "e", "s", "s", "a", "g", "e", "\"", ":", "\"", "S",
                "e", "r", "v", "e", "r", " ", "n", "o", "t", " ", "f", "o", "u",
                "n", "d", "\"", "}">>,
     json |-> JsonObject(Str(<<"S", "e", "r", "v", "e", "r", " ", "n", "o", "t", " ", "f", "o", "u", "n", "d">>),
                       Undefined)]

Body_jsonError ==
    [text |-> <<"{", "\"", "e", "r", "r", "o", "r", "\"", ":", "\"", "B", "a", "d",
                " ", "l", "o", "g", "i", "n", "\"", "}">>,
     json |-> JsonObject(Undefined,
                       Str(<<"B", "a", "d", " ", "l", "o", "g", "i", "n">>))]

Body_jsonEmptyMessage ==
    [text |-> <<"{", "\"", "m", "e", "s", "s", "a", "g", "e", "\"", ":", "\"",
                "\"", ",", "\"", "e", "r", "r", "o", "r", "\"", ":", "\"", "B",
                "a", "d", " ", "l", "o", "g", "i", "n", "\"", "}">>,
     json |-> JsonObject(Str(<<>>),
                       Str(<<"B", "a", "d", " ", "l", "o", "g", "i", "n">>))]

Body_jsonEmptyObject ==
    [text |-> <<"{", "}">>,
     json |-> JsonObject(Undefined,
                       Undefined)]

Body_jsonNull ==
    [text |-> <<"n", "u", "l", "l">>,
     json |-> JsonNull]

Body_nineChars ==
    [text |-> <<"a", "1", "b", "2", "c", "3", "d", "4", "e">>,
     json |-> JsonError]

Body_tenChars ==
    [text |-> <<"a", "1", "b", "2", "c", "3", "d", "4", "e", "5">>,
     json |-> JsonError]

Body_loginFailed ==
    [text |-> <<"L", "o", "g", "i", "n", " ", "F", "a", "i", "L", "e", "d", "!",
                "!">>,
     json |-> JsonError]

ResponseBodies ==
    {Body_token,
     Body_nineChars,
     Body_tenChars,
     Body_loginFailed,
     Body_errorInvalidUser,
     Body_empty,
     Body_shortPadded,
     Body_spaces,
     Body_tokenPadded,
     Body_accessDenied,
     Body_short,
     Body_serverNotFound,
     Body_jsonMessage,
     Body_jsonError,
     Body_jsonEmptyMessage,
     Body_jsonEmptyObject,
     Body_jsonNull}

\* The token prop of the Dashboard: App renders it with the token of a login.
Token == Body_token.text

ContentType_json ==
    Str(<<"a", "p", "p", "l", "i", "c", "a", "t", "i", "o", "n", "/", "j",
          "s", "o", "n", ";", " ", "c", "h", "a", "r", "s", "e", "t", "=",
          "u", "t", "f", "-", "8">>)

ContentType_text ==
    Str(<<"t", "e", "x", "t", "/", "p", "l", "a", "i", "n">>)

ApplicationJson ==
    <<"a", "p", "p", "l", "i", "c", "a", "t", "i", "o", "n", "/", "j",
      "s", "o", "n">>

\* Content-Type headers a response may carry; Null when it has none.
ContentTypes == {Null, ContentType_json, ContentType_text}

\* 200, a 2xx status that is not 200, and a server error.
Statuses == {200, 201, 500}

statusText(status) ==
    CASE status = 200 -> "OK"
      [] status = 201 -> "Created"
      [] OTHER -> "Internal Server Error"

\* What fetch may reject with.  The browser's fetch rejects with a TypeError on a
\* network failure and with an AbortError when aborted; the other two stand for
\* whatever else a replaced or wrapped fetch throws.
TypeError == [isError |-> TRUE, class |-> "TypeError", name |-> "TypeError",
              message |-> Str(<<"F", "a", "i", "l", "e", "d">>)]
AbortError == [isError |-> TRUE, class |-> "DOMException", name |-> "AbortError",
               message |-> Str(<<"a", "b", "o", "r", "t", "e", "d">>)]
OtherError == [isError |-> TRUE, class |-> "Error", name |-> "Error",
               message |-> Str(<<"b", "o", "o", "m">>)]
ThrownValue == [isError |-> FALSE, class |-> "string", name |-> "",
                message |-> Undefined]
Rejections == {TypeError, AbortError, OtherError, ThrownValue}

\* What the login fetch may end in: a rejection, or a response whose body can
\* be read, or one whose body cannot.
FetchOutcomes ==
    {[kind |-> "rejected", error |-> e] : e \in Rejections}
    \cup {[kind |-> "response", status |-> st, contentType |-> ct,
           readable |-> TRUE, text |-> b.text, json |-> b.json] :
              st \in Statuses, ct \in ContentTypes, b \in ResponseBodies}
    \cup {[kind |-> "response", status |-> st, contentType |-> ct,
           readable |-> FALSE, text |-> <<>>, json |-> JsonError] :
              st \in Statuses, ct \in ContentTypes}

NoResponse == [kind |-> "none"]

\* a || b
Or(a, b) == IF Truthy(a) THEN a ELSE b

\* Variant of handleApiError that never looks at the content type.
handleApiError_textOnly(r) ==
    IF ~r.readable
    THEN StatusTextMessage("Network Error: ", r.status, statusText(r.status))
    ELSE Or(Str(r.text), StatusMessage("HTTP Error: ", r.status))

handleApiError(r) ==
    LET caught == StatusTextMessage("Network Error: ", r.status, statusText(r.status))
    IN  IF r.contentType # Null /\ includes(r.contentType.chars, ApplicationJson)
        THEN IF ~r.readable \/ r.json.parse = "error" THEN caught   \* json() rejects
             ELSE IF r.json.parse = "null" THEN caught   \* property of null
             ELSE Or(r.json.message,
                     Or(r.json.error, StatusMessage("API Error: ", r.status)))
        ELSE IF ~r.readable THEN caught                  \* text() rejects
             ELSE Or(Str(r.text), StatusMessage("HTTP Error: ", r.status))

\* LoginResponse values; thrown marks a call that ended in an exception
\* instead of a value.
Success(token) ==
    [success |-> TRUE, token |-> token, error |-> Undefined, thrown |-> FALSE]
Failure(message) ==
    [success |-> FALSE, token |-> Undefined, error |-> message, thrown |-> FALSE]
Thrown == [success |-> FALSE, token |-> Undefined, error |-> Undefined,
           thrown |-> TRUE]
NoResult == [success |-> FALSE, token |-> Undefined, error |-> Undefined,
             thrown |-> FALSE]

\* The catch block of loginToMT5.
loginCatch(e) ==
    IF e.class = "TypeError"
    THEN Failure(Lit("Network connection failed. Please check your internet connection."))
    ELSE IF e.isError /\ e.name = "AbortError"
    THEN Failure(Lit("Request timeout. Please try again."))
    ELSE Failure(IF e.isError THEN e.message
                 ELSE Lit("An unexpected error occurred"))

\* Variant of loginAfterFetch that accepts every 2xx status.
loginAfterFetch_anyOk(outcome) ==
    IF outcome.kind = "none" THEN NoResult
    ELSE IF outcome.kind = "rejected" THEN loginCatch(outcome.error)
    ELSE IF outcome.status \in 200..299
    THEN IF ~outcome.readable THEN loginCatch(TypeError)
         ELSE IF validateToken(outcome.text)
         THEN Success(Str(trim(outcome.text)))
         ELSE Failure(Lit("Invalid authentication token received"))
    ELSE Failure(handleApiError(outcome))

\* Variant of loginAfterFetch in which a rejected fetch escapes the function.
loginAfterFetch_noCatch(outcome) ==
    IF outcome.kind = "none" THEN NoResult
    ELSE IF outcome.kind = "rejected" THEN Thrown
    ELSE IF outcome.status \in 200..299 /\ outcome.status = 200
    THEN IF ~outcome.readable THEN Thrown
         ELSE IF validateToken(outcome.text)
         THEN Success(Str(trim(outcome.text)))
         ELSE Failure(Lit("Invalid authentication token received"))
    ELSE Failure(handleApiError(outcome))

\* loginToMT5 from the point where its fetch settles with outcome (kind "none":
\* it has not settled, and there is no result yet).
loginAfterFetch(outcome) ==
    IF outcome.kind = "none" THEN NoResult
    ELSE IF outcome.kind = "rejected" THEN loginCatch(outcome.error)
    ELSE IF outcome.status \in 200..299 /\ outcome.status = 200
    THEN IF ~outcome.readable THEN loginCatch(TypeError)    \* text() rejects
         ELSE IF validateToken(outcome.text)
         THEN Success(Str(trim(outcome.text)))
         ELSE Failure(Lit("Invalid authentication token received"))
    ELSE Failure(handleApiError(outcome))

\* URLSearchParams of the login request.
loginParams(c) ==
    [user |-> trim(c.username), password |-> c.password, server |-> trim(c.server)]

\* Variant of loginToMT5 that sends the request before it validates.
loginToMT5_fetchFirst(c, outcome) ==
    [requests |-> <<loginParams(c)>>,
     result |-> IF Truthy(validateCredentials(c))
                THEN Failure(validateCredentials(c))
                ELSE loginAfterFetch(outcome)]

\* loginToMT5 called with c, its fetch (when it issues one) ending in outcome:
\* the requests it issues and the value it resolves with.
loginToMT5(c, outcome) ==
    LET validationError == validateCredentials(c) IN
    IF Truthy(validationError)
    THEN [requests |-> <<>>, result |-> Failure(validationError)]
    ELSE [requests |-> <<loginParams(c)>>, result |-> loginAfterFetch(outcome)]

----------------------------------------------------------------------------
\* services/mt5Api.ts

\* Numbers of the snapshot.
Num(n) == [kind |-> "number", n |-> n]

SummaryFields == {"balance", "equity", "margin", "freeMargin", "marginLevel",
                  "currency", "profit"}
DetailsFields == {"accountNumber", "accountName", "serverName", "leverage"}
AccountFields == SummaryFields \cup DetailsFields

defaultAccountInfo ==
    [balance |-> Num(0),
     equity |-> Num(0),
     margin |-> Num(0),
     freeMargin |-> Num(0),
     marginLevel |-> Num(0),
     currency |-> Lit("USD"),
     accountNumber |-> Lit("N/A"),
     accountName |-> Lit("N/A"),
     serverName |-> Lit("N/A"),
     leverage |-> Num(0),
     profit |-> Num(0)]

\* A parsed JSON object: the value of every field the code reads, Undefined
\* for a field the object does not have.
AccountJson(r) ==
    [parse |-> "object",
     fields |-> [f \in AccountFields |-> IF f \in DOMAIN r THEN r[f] ELSE Undefined]]

\* let summaryData = {}
EmptyObject == AccountJson(<<>>)

Summary_full ==
    AccountJson([balance |-> Num(1000), equity |-> Num(1050), margin |-> Num(200),
                 freeMargin |-> Num(850), marginLevel |-> Num(525),
                 currency |-> Str(<<"E", "U", "R">>), profit |-> Num(50)])

\* A body with a zero, a null and an empty string, and the other fields absent.
Summary_partial ==
    AccountJson([balance |-> Num(0), equity |-> Null, currency |-> Str(<<>>)])

Details_full ==
    AccountJson([accountNumber |-> Str(<<"7">>), accountName |-> Str(<<"A", "l">>),
                 serverName |-> Str(<<"s">>), leverage |-> Num(100)])

Details_partial ==
    AccountJson([accountNumber |-> Null, leverage |-> Num(0)])

\* The body {"accountNumber":"12345"}.
Details_accountNumberOnly ==
    AccountJson([accountNumber |-> Str(<<"1", "2", "3", "4", "5">>)])

\* Bodies that also carry fields of the other source.
Summary_foreign ==
    AccountJson([balance |-> Num(5), accountNumber |-> Str(<<"9">>),
                 leverage |-> Num(7)])

Details_foreign ==
    AccountJson([accountName |-> Str(<<"B", "o">>), balance |-> Num(999),
                 currency |-> Str(<<"G", "B", "P">>)])

JsonResponse(status, json) == [kind |-> "response", status |-> status, json |-> json]

\* fetch(...) rejects.
FetchRejects == [kind |-> "rejected", error |-> TypeError]

\* The code before the two reads throws: neither read is started.
FetchThrows == [kind |-> "throws", error |-> OtherError]

\* What the summary read of a Dashboard fetch ends in: a 2xx response with a
\* JSON body, a non-2xx response, a 2xx response whose body does not parse, a
\* rejected fetch.
SummaryResponses ==
    {JsonResponse(200, Summary_full), JsonResponse(500, JsonError),
     JsonResponse(200, JsonError), FetchRejects}

DetailsResponses ==
    {JsonResponse(200, Details_full), JsonResponse(500, JsonError),
     JsonResponse(200, JsonError), FetchRejects}

\* All outcomes of a read that getAccountInfo is tried with: also a body with
\* nulls and absent fields, the bodies {} and null, bodies with fields of the
\* other source, and a non-2xx response with a good body.
SummaryOutcomes ==
    SummaryResponses
    \cup {JsonResponse(200, Summary_partial), JsonResponse(200, EmptyObject),
          JsonResponse(200, JsonNull), JsonResponse(404, Summary_full),
          JsonResponse(200, Summary_foreign)}

DetailsOutcomes ==
    DetailsResponses
    \cup {JsonResponse(200, Details_partial), JsonResponse(200, EmptyObject),
          JsonResponse(200, JsonNull), JsonResponse(404, Details_full),
          JsonResponse(200, Details_accountNumberOnly),
          JsonResponse(200, Details_foreign)}

\* Promise.all of the two reads has settled: one of them has rejected, or both
\* have resolved.
promiseAllSettled(summaryResponse, detailsResponse) ==
    \/ "rejected" \in {summaryResponse.kind, detailsResponse.kind}
    \/ {summaryResponse.kind, detailsResponse.kind} = {"response"}

\* Variant of accountRequests that starts the reads before the token test.
accountRequests_beforeTokenTest(token) ==
    <<[endpoint |-> "AccountSummary", id |-> token],
      [endpoint |-> "AccountDetails", id |-> token]>>

\* The requests a getAccountInfo call with token issues.
accountRequests(token) ==
    IF trim(token) = <<>>
    THEN <<>>
    ELSE <<[endpoint |-> "AccountSummary", id |-> token],
           [endpoint |-> "AccountDetails", id |-> token]>>

\* response.ok
ok(r) == r.status \in 200..299

\* The data of one source after its block: the parsed body when the response
\* is ok and the body parses, the initial {} otherwise.
sourceData(r) ==
    IF ok(r) /\ r.json.parse # "error" THEN r.json ELSE EmptyObject

\* (data as any)?.field
Get(data, field) ==
    IF data.parse = "null" THEN Undefined ELSE data.fields[field]

\* a ?? b
Coalesce(a, b) == IF a \in {Null, Undefined} THEN b ELSE a

\* Variant of getAccountInfo that takes the fields of a parsed body as they are.
getAccountInfo_noDefaults(token, summaryResponse, detailsResponse) ==
    IF trim(token) = <<>>
    THEN defaultAccountInfo
    ELSE IF {summaryResponse.kind, detailsResponse.kind} # {"response"}
    THEN defaultAccountInfo
    ELSE [f \in AccountFields |->
             IF f \in SummaryFields
             THEN Get(sourceData(summaryResponse), f)
             ELSE Get(sourceData(detailsResponse), f)]

\* Variant of getAccountInfo that fills a field its source lacks from the other
\* source.
getAccountInfo_crossFill(token, summaryResponse, detailsResponse) ==
    IF trim(token) = <<>>
    THEN defaultAccountInfo
    ELSE IF {summaryResponse.kind, detailsResponse.kind} # {"response"}
    THEN defaultAccountInfo
    ELSE LET summaryData == sourceData(summaryResponse)
             detailsData == sourceData(detailsResponse)
         IN  [f \in AccountFields |->
                 IF f \in SummaryFields
                 THEN Coalesce(Get(summaryData, f),
                               Coalesce(Get(detailsData, f), defaultAccountInfo[f]))
                 ELSE Coalesce(Get(detailsData, f),
                               Coalesce(Get(summaryData, f), defaultAccountInfo[f]))]

\* The summary fields come from the summary body and the details fields from the
\* details body, each field replaced by its default when the body has none or
\* null for it; a source that is not ok, or does not parse, leaves its fields at
\* the defaults; a rejected or throwing fetch ends in the catch, which returns
\* the defaults; a blank token returns the defaults before any request.
getAccountInfo(token, summaryResponse, detailsResponse) ==
    IF trim(token) = <<>>
    THEN defaultAccountInfo
    ELSE IF {summaryResponse.kind, detailsResponse.kind} # {"response"}
    THEN defaultAccountInfo
    ELSE LET summaryData == sourceData(summaryResponse)
             detailsData == sourceData(detailsResponse)
         IN  [f \in AccountFields |->
                 IF f \in SummaryFields
                 THEN Coalesce(Get(summaryData, f), defaultAccountInfo[f])
                 ELSE Coalesce(Get(detailsData, f), defaultAccountInfo[f])]

----------------------------------------------------------------------------
\* components/Dashboard.tsx: the helpers

clearInterval(ts, id) == {t \in ts : t.id # id}

\* setInterval returns an id no armed interval has; the least one that is also
\* not the id still recorded in intervalRef.
setIntervalId(e) ==
    CHOOSE i \in 1..(Cardinality(e.timers) + 2) :
        /\ i \notin ({t.id : t \in e.timers} \cup {e.intervalRef})
        /\ \A j \in 1..(i - 1) : j \in ({t.id : t \in e.timers} \cup {e.intervalRef})

\* fetchAccountInfo up to its await: the loading flag and the request.
fetchAccountInfo(e, showLoading, src) ==
    [e EXCEPT !.isLoading = IF showLoading THEN TRUE ELSE @,
              !.inflight = @ \cup {[seq |-> e.fetchSeq + 1,
                                    showLoading |-> showLoading, src |-> src]},
              !.fetchSeq = @ + 1]

\* Variant of startRealTimeUpdates that arms the new interval without clearing
\* the recorded one.
startRealTimeUpdates_noClear(e, active) ==
    [e EXCEPT !.timers = @ \cup {[id |-> setIntervalId(e), active |-> active,
                                 period |-> PollIntervalMs]},
              !.intervalRef = setIntervalId(e)]

\* active is the isRealTimeActive of the render that created the callback.
startRealTimeUpdates(e, active) ==
    LET cleared == IF e.intervalRef # NULL
                   THEN clearInterval(e.timers, e.intervalRef)
                   ELSE e.timers
        id == setIntervalId(e)
    IN  [e EXCEPT !.timers = cleared \cup {[id |-> id, active |-> active,
                                 period |-> PollIntervalMs]},
                  !.intervalRef = id]

stopRealTimeUpdates(e) ==
    IF e.intervalRef # NULL
    THEN [e EXCEPT !.timers = clearInterval(e.timers, e.intervalRef),
                   !.intervalRef = NULL]
    ELSE e

\* Variant of mountEffect whose fetch shows no loading indication.
mountEffect_quietFetch(e, active) ==
    LET e1 == [e EXCEPT !.mountedRef = TRUE]
        e2 == fetchAccountInfo(e1, FALSE, IF active THEN "start" ELSE "effect")
    IN  IF active THEN startRealTimeUpdates(e2, active) ELSE e2

\* The body of the mount effect, run for a render whose isRealTimeActive is active.
mountEffect(e, active) ==
    LET e1 == [e EXCEPT !.mountedRef = TRUE]
        e2 == fetchAccountInfo(e1, TRUE, IF active THEN "start" ELSE "effect")
    IN  IF active THEN startRealTimeUpdates(e2, active) ELSE e2

\* Variant of mountCleanup that leaves mountedRef set.
mountCleanup_keepsMounted(e) ==
    stopRealTimeUpdates(e)

\* The cleanup the mount effect returns.
mountCleanup(e) ==
    stopRealTimeUpdates([e EXCEPT !.mountedRef = FALSE])

\* Variant of handleVisibilityChange that keeps the interval when the page hides.
handleVisibilityChange_noPause(e, documentHidden, active) ==
    IF ~documentHidden /\ active THEN startRealTimeUpdates(e, active) ELSE e

\* Variant of handleVisibilityChange that re-arms whatever the flag is.
handleVisibilityChange_ignoresFlag(e, documentHidden, active) ==
    IF documentHidden THEN stopRealTimeUpdates(e)
    ELSE startRealTimeUpdates(e, active)

\* The visibilitychange handler of a render whose isRealTimeActive is active.
handleVisibilityChange(e, documentHidden, active) ==
    IF documentHidden THEN stopRealTimeUpdates(e)
    ELSE IF active THEN startRealTimeUpdates(e, active)
    ELSE e

\* Variant of the interval callback that skips a period while a fetch is
\* outstanding.
intervalFetches_skipsBusy(e, t) == e.mountedRef /\ t.active /\ e.inflight = {}

\* The interval callback: it fetches when the context is alive and the captured
\* flag is true.
intervalFetches(e, t) == e.mountedRef /\ t.active

\* The header with its three buttons is rendered once accountInfo is set.
ButtonsRendered == phase = "mounted" /\ accountInfo # NoAccountInfo

----------------------------------------------------------------------------
DashboardInit ==
    /\ phase = "init"
    /\ accountInfo = NoAccountInfo
    /\ isLoading = TRUE
    /\ lastUpdated = 0
    /\ isConnected = TRUE
    /\ updateCount = 0
    /\ isRealTimeActive = TRUE
    /\ intervalRef = NULL
    /\ mountedRef = TRUE
    /\ timers = {}
    /\ listeners = {}
    /\ hidden \in BOOLEAN
    /\ inflight = {}
    /\ fetchSeq = 0
    /\ clock = 0
    /\ published = <<>>
    /\ dropped = {}
    /\ stoppedSeqs = {}
    /\ nTicks = 0
    /\ everStopped = FALSE
    /\ lastEvent = "none"

NoCredentials == [username |-> <<>>, password |-> <<>>, server |-> <<>>]

\* No loginToMT5 call is running.
LoginIdle ==
    /\ appIsLoading = FALSE
    /\ loginPc = "idle"
    /\ credentials = NoCredentials
    /\ requests = <<>>
    /\ response = NoResponse
    /\ loginResult = NoResult

\* No getAccountInfo call is looked at on its own.
CallIdle ==
    /\ callPc = "idle"
    /\ callToken = <<>>
    /\ summaryOutcome = NoResponse
    /\ detailsOutcome = NoResponse
    /\ snapshot = NoAccountInfo
    /\ callRequests = <<>>

\* App renders the Dashboard, just constructed, for a session with Token.
Init ==
    /\ DashboardInit
    /\ CallIdle
    /\ isAuthenticated = TRUE
    /\ authToken = Str(Token)
    /\ error = Null
    /\ LoginIdle

\* First commit: both effects run.
Mount ==
    /\ phase = "init"
    /\ fetchSeq < MaxFetches
    /\ phase' = "mounted"
    /\ Commit(mountEffect(Env, isRealTimeActive))
    /\ listeners' = {isRealTimeActive}
    /\ lastEvent' = "mount"
    /\ UNCHANGED <<loginVars, callVars>>
    /\ UNCHANGED <<accountInfo, lastUpdated, isConnected, updateCount,
                   isRealTimeActive, hidden, clock, published, dropped,
                   stoppedSeqs, nTicks, everStopped>>

\* One period of an armed interval elapses and its callback runs.
TimerTick ==
    \E t \in timers :
        /\ intervalFetches(Env, t) => fetchSeq < MaxFetches
        /\ Commit(IF intervalFetches(Env, t)
                  THEN fetchAccountInfo(Env, FALSE, "tick")
                  ELSE Env)
        /\ nTicks' = nTicks + 1
        /\ lastEvent' = "tick"
        /\ UNCHANGED <<loginVars, callVars>>
        /\ UNCHANGED <<phase, accountInfo, lastUpdated, isConnected, updateCount,
                       isRealTimeActive, listeners, hidden, clock, published,
                       dropped, stoppedSeqs, everStopped>>

\* Variant of FetchComplete that counts only the background fetches.
FetchComplete_countsTicksOnly ==
    \E f \in inflight, summaryResponse \in SummaryResponses,
          detailsResponse \in DetailsResponses :
        LET info == getAccountInfo(Token, summaryResponse, detailsResponse) IN
        /\ clock' = clock + 1
        /\ IF mountedRef
           THEN /\ accountInfo' = info
                /\ lastUpdated' = clock'
                /\ isConnected' = TRUE
                /\ updateCount' = IF f.showLoading THEN updateCount
                                  ELSE updateCount + 1
                /\ published' = Append(published, f.seq)
                /\ dropped' = dropped
           ELSE /\ dropped' = dropped \cup {f.seq}
                /\ UNCHANGED <<accountInfo, lastUpdated, isConnected, updateCount,
                               published>>
        /\ isLoading' = IF mountedRef /\ f.showLoading THEN FALSE ELSE isLoading
        /\ inflight' = inflight \ {f}
        /\ lastEvent' = "complete"
        /\ UNCHANGED <<loginVars, callVars>>
        /\ UNCHANGED <<phase, isRealTimeActive, intervalRef, mountedRef, timers,
                       listeners, hidden, fetchSeq, stoppedSeqs, nTicks, everStopped>>

\* getAccountInfo resolves and fetchAccountInfo runs from its await to its end.
FetchComplete ==
    \E f \in inflight, summaryResponse \in SummaryResponses,
          detailsResponse \in DetailsResponses :
        LET info == getAccountInfo(Token, summaryResponse, detailsResponse) IN
        /\ clock' = clock + 1
        /\ IF mountedRef
           THEN /\ accountInfo' = info
                /\ lastUpdated' = clock'
                /\ isConnected' = TRUE
                /\ updateCount' = updateCount + 1
                /\ published' = Append(published, f.seq)
                /\ dropped' = dropped
           ELSE /\ dropped' = dropped \cup {f.seq}
                /\ UNCHANGED <<accountInfo, lastUpdated, isConnected, updateCount,
                               published>>
        /\ isLoading' = IF mountedRef /\ f.showLoading THEN FALSE ELSE isLoading
        /\ inflight' = inflight \ {f}
        /\ lastEvent' = "complete"
        /\ UNCHANGED <<loginVars, callVars>>
        /\ UNCHANGED <<phase, isRealTimeActive, intervalRef, mountedRef, timers,
                       listeners, hidden, fetchSeq, stoppedSeqs, nTicks, everStopped>>

\* Click on the real-time button: the updater runs with the handlers of the
\* current render, then the render with the new flag replaces both effects.
toggleRealTime ==
    /\ ButtonsRendered
    /\ fetchSeq < MaxFetches
    /\ LET newState == ~isRealTimeActive
           e1 == IF newState
                 THEN startRealTimeUpdates(Env, isRealTimeActive)
                 ELSE stopRealTimeUpdates(Env)
           e2 == mountCleanup(e1)
           e3 == mountEffect(e2, newState)
       IN  /\ isRealTimeActive' = newState
           /\ Commit(e3)
           /\ listeners' = {newState}
           /\ stoppedSeqs' = IF newState THEN stoppedSeqs
                             ELSE stoppedSeqs \cup
                                  {f.seq : f \in {g \in inflight : g.src = "start"}}
           /\ everStopped' = TRUE
    /\ lastEvent' = "toggle"
    /\ UNCHANGED <<loginVars, callVars>>
    /\ UNCHANGED <<phase, accountInfo, lastUpdated, isConnected, updateCount,
                   hidden, clock, published, dropped, nTicks>>

\* Variant of manualRefresh that also restarts the recurring timer.
manualRefresh_restartsTimer ==
    /\ ButtonsRendered
    /\ ~isLoading
    /\ fetchSeq < MaxFetches
    /\ Commit(startRealTimeUpdates(fetchAccountInfo(Env, TRUE, "manual"),
                                   isRealTimeActive))
    /\ lastEvent' = "refresh"
    /\ UNCHANGED <<loginVars, callVars>>
    /\ UNCHANGED <<phase, accountInfo, lastUpdated, isConnected, updateCount,
                   isRealTimeActive, listeners, hidden, clock, published, dropped,
                   stoppedSeqs, nTicks, everStopped>>

\* Click on Refresh, which is disabled while isLoading.
manualRefresh ==
    /\ ButtonsRendered
    /\ ~isLoading
    /\ fetchSeq < MaxFetches
    /\ Commit(fetchAccountInfo(Env, TRUE, "manual"))
    /\ lastEvent' = "refresh"
    /\ UNCHANGED <<loginVars, callVars>>
    /\ UNCHANGED <<phase, accountInfo, lastUpdated, isConnected, updateCount,
                   isRealTimeActive, listeners, hidden, clock, published, dropped,
                   stoppedSeqs, nTicks, everStopped>>

\* document.hidden changes and the browser dispatches visibilitychange.
visibilitychange ==
    /\ hidden' = ~hidden
    /\ Commit(IF listeners = {} THEN Env
              ELSE handleVisibilityChange(Env, hidden',
                                          CHOOSE a \in listeners : TRUE))
    /\ everStopped' = (everStopped \/ (listeners # {} /\ hidden'))
    /\ lastEvent' = IF hidden' THEN "hidden" ELSE "visible"
    /\ UNCHANGED <<loginVars, callVars>>
    /\ UNCHANGED <<phase, accountInfo, lastUpdated, isConnected, updateCount,
                   isRealTimeActive, listeners, clock, published, dropped,
                   stoppedSeqs, nTicks>>

\* Click on Logout: App drops the session and React unmounts the Dashboard,
\* running both effect cleanups.
handleLogout ==
    /\ ButtonsRendered
    /\ phase' = "unmounted"
    /\ Commit(mountCleanup(Env))
    /\ listeners' = {}
    /\ everStopped' = TRUE
    /\ lastEvent' = "logout"
    /\ isAuthenticated' = FALSE
    /\ authToken' = Null
    /\ error' = Null
    /\ UNCHANGED <<appIsLoading, loginPc, credentials, requests, response,
                   loginResult>>
    /\ UNCHANGED callVars
    /\ UNCHANGED <<accountInfo, lastUpdated, isConnected, updateCount,
                   isRealTimeActive, hidden, clock, published, dropped,
                   stoppedSeqs, nTicks>>

Next ==
    \/ Mount
    \/ TimerTick
    \/ FetchComplete
    \/ toggleRealTime
    \/ manualRefresh
    \/ visibilitychange
    \/ handleLogout

Spec == Init /\ [][Next]_vars

----------------------------------------------------------------------------
\* App and the login call.  The Dashboard is left out of this specification:
\* its variables keep their initial values.

\* Lengths of the credential strings tried.
MaxUserLen == 2
MaxFieldLen == 1

SeqsUpTo(S, n) == UNION {[1..k -> S] : k \in 0..n}

\* Every credentials value within the bounds: a digit, a letter and a blank for
\* the username, a letter and a blank for password and server.
CredentialsSet ==
    [username : SeqsUpTo({"7", "a", " "}, MaxUserLen),
     password : SeqsUpTo({"p", " "}, MaxFieldLen),
     server : SeqsUpTo({"s", " "}, MaxFieldLen)]

LoginInit ==
    /\ DashboardInit
    /\ CallIdle
    /\ isAuthenticated = FALSE
    /\ authToken = Null
    /\ error = Null
    /\ LoginIdle

\* App.handleLogin up to its await, and in it loginToMT5 up to the await of its
\* fetch or, when validation fails, to its return.  loginToMT5 validates by
\* itself, so every credentials value is tried, also those the form rejects.
handleLogin ==
    /\ ~isAuthenticated
    /\ loginPc = "idle"
    /\ \E c \in CredentialsSet :
          LET call == loginToMT5(c, NoResponse) IN
          /\ credentials' = c
          /\ requests' = call.requests
          /\ IF call.requests = <<>>
             THEN loginPc' = "returned" /\ loginResult' = call.result
             ELSE loginPc' = "awaiting" /\ loginResult' = NoResult
    /\ appIsLoading' = TRUE
    /\ error' = Null
    /\ UNCHANGED <<isAuthenticated, authToken, response>>
    /\ UNCHANGED <<dashboardVars, callVars>>

\* The login fetch settles and loginToMT5 runs to its return.
LoginFetchSettles ==
    /\ loginPc = "awaiting"
    /\ \E outcome \in FetchOutcomes :
          /\ response' = outcome
          /\ loginResult' = loginToMT5(credentials, outcome).result
    /\ loginPc' = "returned"
    /\ UNCHANGED <<isAuthenticated, authToken, error, appIsLoading, credentials,
                   requests>>
    /\ UNCHANGED <<dashboardVars, callVars>>

\* Variant of handleLoginResume that tests response.success alone.
handleLoginResume_trustsSuccess ==
    /\ loginPc = "returned"
    /\ IF loginResult.thrown
       THEN /\ error' = Lit("An unexpected error occurred. Please try again.")
            /\ UNCHANGED <<isAuthenticated, authToken>>
       ELSE IF loginResult.success
       THEN /\ authToken' = loginResult.token
            /\ isAuthenticated' = TRUE
            /\ error' = error
       ELSE /\ error' = Or(loginResult.error,
                           Lit("Login failed. Please check your credentials."))
            /\ UNCHANGED <<isAuthenticated, authToken>>
    /\ appIsLoading' = FALSE
    /\ loginPc' = "idle"
    /\ credentials' = NoCredentials
    /\ requests' = <<>>
    /\ response' = NoResponse
    /\ loginResult' = NoResult
    /\ UNCHANGED <<dashboardVars, callVars>>

\* App.handleLogin from its await to its end.
handleLoginResume ==
    /\ loginPc = "returned"
    /\ IF loginResult.thrown
       THEN /\ error' = Lit("An unexpected error occurred. Please try again.")
            /\ UNCHANGED <<isAuthenticated, authToken>>
       ELSE IF loginResult.success /\ Truthy(loginResult.token)
       THEN /\ authToken' = loginResult.token
            /\ isAuthenticated' = TRUE
            /\ error' = error
       ELSE /\ error' = Or(loginResult.error,
                           Lit("Login failed. Please check your credentials."))
            /\ UNCHANGED <<isAuthenticated, authToken>>
    /\ appIsLoading' = FALSE
    /\ loginPc' = "idle"
    /\ credentials' = NoCredentials
    /\ requests' = <<>>
    /\ response' = NoResponse
    /\ loginResult' = NoResult
    /\ UNCHANGED <<dashboardVars, callVars>>

\* App.handleLogout, reached from the Logout button of the rendered Dashboard.
AppLogout ==
    /\ isAuthenticated
    /\ Truthy(authToken)
    /\ isAuthenticated' = FALSE
    /\ authToken' = Null
    /\ error' = Null
    /\ UNCHANGED <<appIsLoading, loginPc, credentials, requests, response,
                   loginResult>>
    /\ UNCHANGED <<dashboardVars, callVars>>

LoginNext ==
    \/ handleLogin
    \/ LoginFetchSettles
    \/ handleLoginResume
    \/ AppLogout

SpecLogin == LoginInit /\ [][LoginNext]_vars

----------------------------------------------------------------------------
\* getAccountInfo taken alone, with every token and every pair of outcomes.
\* App and the Dashboard are left out: their variables keep their values.

\* The tokens tried: a well-formed one, the three-character one a login can
\* issue, the empty string and two blank ones.
Tokens == {Token, <<"a", "b", "c">>, <<>>, <<" ">>, <<" ", "\t">>}

\* getAccountInfo is called and runs to the await of Promise.all with both
\* reads started, or to its return: for a blank token, and when the code before
\* the reads throws.
getAccountInfoCall ==
    /\ callPc = "idle"
    /\ \E t \in Tokens, setupThrows \in BOOLEAN :
          /\ callToken' = t
          /\ IF trim(t) = <<>>
             THEN /\ callPc' = "returned"
                  /\ callRequests' = accountRequests(t)
                  /\ snapshot' = getAccountInfo(t, NoResponse, NoResponse)
                  /\ UNCHANGED <<summaryOutcome, detailsOutcome>>
             ELSE IF setupThrows
             THEN /\ callPc' = "returned"
                  /\ callRequests' = <<>>
                  /\ summaryOutcome' = FetchThrows
                  /\ detailsOutcome' = FetchThrows
                  /\ snapshot' = getAccountInfo(t, FetchThrows, FetchThrows)
             ELSE /\ callPc' = "awaiting"
                  /\ callRequests' = accountRequests(t)
                  /\ snapshot' = NoAccountInfo
                  /\ UNCHANGED <<summaryOutcome, detailsOutcome>>
    /\ UNCHANGED <<dashboardVars, loginVars>>

\* The summary read settles; getAccountInfo runs to its return when that
\* settles Promise.all.
SummarySettles ==
    /\ callPc = "awaiting"
    /\ summaryOutcome = NoResponse
    /\ \E summaryResponse \in SummaryOutcomes :
          /\ summaryOutcome' = summaryResponse
          /\ IF promiseAllSettled(summaryResponse, detailsOutcome)
             THEN /\ callPc' = "returned"
                  /\ snapshot' = getAccountInfo(callToken, summaryResponse,
                                                detailsOutcome)
             ELSE UNCHANGED <<callPc, snapshot>>
    /\ UNCHANGED <<callToken, detailsOutcome, callRequests>>
    /\ UNCHANGED <<dashboardVars, loginVars>>

\* The details read settles, likewise.
DetailsSettles ==
    /\ callPc = "awaiting"
    /\ detailsOutcome = NoResponse
    /\ \E detailsResponse \in DetailsOutcomes :
          /\ detailsOutcome' = detailsResponse
          /\ IF promiseAllSettled(summaryOutcome, detailsResponse)
             THEN /\ callPc' = "returned"
                  /\ snapshot' = getAccountInfo(callToken, summaryOutcome,
                                                detailsResponse)
             ELSE UNCHANGED <<callPc, snapshot>>
    /\ UNCHANGED <<callToken, summaryOutcome, callRequests>>
    /\ UNCHANGED <<dashboardVars, loginVars>>

\* The caller has taken the snapshot.
getAccountInfoReturned ==
    /\ callPc = "returned"
    /\ callPc' = "idle"
    /\ callToken' = <<>>
    /\ summaryOutcome' = NoResponse
    /\ detailsOutcome' = NoResponse
    /\ snapshot' = NoAccountInfo
    /\ callRequests' = <<>>
    /\ UNCHANGED <<dashboardVars, loginVars>>

FetchNext ==
    \/ getAccountInfoCall
    \/ SummarySettles
    \/ DetailsSettles
    \/ getAccountInfoReturned

SpecFetch == Init /\ [][FetchNext]_vars

----------------------------------------------------------------------------
\* Steps the claims speak about.

\* The scheduler starts: the first mount with the flag true, or a toggle that
\* turns the flag on.
StartStep ==
    \/ phase = "init" /\ phase' = "mounted" /\ isRealTimeActive
    \/ ~isRealTimeActive /\ isRealTimeActive'

\* The visibilitychange handler runs with document.hidden true, resp. false.
HiddenEvent == phase = "mounted" /\ ~hidden /\ hidden'
VisibleEvent == phase = "mounted" /\ hidden /\ ~hidden'

ToggleStep == lastEvent' = "toggle"

TickFetches(fs) == {f \in fs : f.src = "tick"}

PollingState == <<accountInfo, lastUpdated, isConnected, updateCount>>

\* C1: once the Dashboard is unmounted no step changes accountInfo, lastUpdated,
\* isConnected, updateCount or isLoading (the completion of a fetch that was in
\* flight at teardown included), and no step initiates a fetch.
C1_NoMutationAfterTeardown ==
    [][phase = "unmounted" =>
          /\ UNCHANGED <<accountInfo, lastUpdated, isConnected, updateCount, isLoading>>
          /\ fetchSeq' = fetchSeq
          /\ inflight' \subseteq inflight]_vars

\* A fetch that was in flight at teardown has completed and was dropped.
C1_Witness ==
    phase = "unmounted" /\ dropped # {} /\ lastEvent = "complete"

\* C2: a fetch issued by a start and still outstanding when a toggle turned
\* real-time off changes none of accountInfo, lastUpdated, isConnected and
\* updateCount when it resolves.
C2_StoppedFetchMutatesNothing ==
    [][\A f \in inflight :
          (f \notin inflight' /\ f.seq \in stoppedSeqs) => UNCHANGED PollingState]_vars

\* C3: the published snapshots follow fetch-initiation order: no fetch is
\* published after a fetch that was initiated later.
C3_PublicationFollowsInitiation ==
    \A i, j \in 1..Len(published) : i < j => published[i] < published[j]

\* C4: at most one timer-initiated fetch is outstanding at any time.
C4_NoPipelinedTicks ==
    Cardinality(TickFetches(inflight)) <= 1

\* C5: every armed interval is the one recorded in intervalRef, so at most one
\* interval is armed.
C5_SingleTrackedTimer ==
    /\ \A t \in timers : t.id = intervalRef
    /\ Cardinality(timers) <= 1

\* The visibility handler has re-armed over an interval that was still armed.
C5_Witness ==
    /\ lastEvent = "visible"
    /\ intervalRef = 2
    /\ timers = {[id |-> 2, active |-> TRUE, period |-> PollIntervalMs]}

\* C6: a start initiates exactly one fetch, with loading indication, and leaves
\* exactly one interval armed, of period 1000 ms, recorded and live; no fetch
\* initiated by a timer tick shows loading indication.
C6_StartFetchesOnceThenArms ==
    [][/\ StartStep =>
             /\ fetchSeq' = fetchSeq + 1
             /\ inflight' \ inflight =
                    {[seq |-> fetchSeq', showLoading |-> TRUE, src |-> "start"]}
             /\ isLoading'
             /\ mountedRef'
             /\ \E t \in timers' :
                    /\ timers' = {t}
                    /\ t.active
                    /\ t.period = PollIntervalMs
                    /\ intervalRef' = t.id
       /\ \A f \in TickFetches(inflight') : ~f.showLoading]_vars

\* A toggle has turned real-time on, and a tick has fetched in the background.
C6_Witness ==
    /\ lastEvent = "tick"
    /\ everStopped
    /\ isRealTimeActive
    /\ \E f \in inflight : f.src = "start" /\ f.seq > 1
    /\ TickFetches(inflight) # {}

\* C7: while the Dashboard is mounted and nothing has stopped the scheduler,
\* every timer period has initiated a fetch and every resolved fetch was
\* published: updateCount plus the fetches outstanding is at least the number
\* of timer periods plus one.
C7_TicksFetchAndPublish ==
    (phase = "mounted" /\ ~everStopped) =>
        /\ fetchSeq >= nTicks + 1
        /\ dropped = {}
        /\ updateCount = fetchSeq - Cardinality(inflight)
        /\ updateCount + Cardinality(inflight) >= nTicks + 1

\* Three timer periods have passed and all fetches have resolved.
C7_Witness ==
    /\ phase = "mounted"
    /\ ~everStopped
    /\ nTicks = 3
    /\ inflight = {}
    /\ updateCount >= 4

\* C8 as stated: the hidden event cancels the timer and keeps the flag, and
\* while the page stays hidden no step arms a timer or starts a timer fetch.
C8_PausedWhateverHappens ==
    [][/\ HiddenEvent =>
             /\ timers' = {}
             /\ intervalRef' = NULL
             /\ isRealTimeActive' = isRealTimeActive
       /\ (phase = "mounted" /\ hidden /\ hidden' /\ timers = {}) =>
             /\ timers' = {}
             /\ TickFetches(inflight') \subseteq TickFetches(inflight)]_vars

\* C8 amended: the hidden event cancels the timer and keeps the flag, and while
\* the page stays hidden no step other than a toggle that turns the flag on
\* arms a timer or starts a timer fetch.
C8_PausedUntilVisibleOrToggleOn ==
    [][/\ HiddenEvent =>
             /\ timers' = {}
             /\ intervalRef' = NULL
             /\ isRealTimeActive' = isRealTimeActive
       /\ (/\ phase = "mounted" /\ hidden /\ hidden' /\ timers = {}
           /\ ~(~isRealTimeActive /\ isRealTimeActive')) =>
             /\ timers' = {}
             /\ TickFetches(inflight') \subseteq TickFetches(inflight)]_vars

\* The page is hidden with the flag on, no timer is armed, and a manual refresh
\* has just run.
C8_Witness ==
    /\ phase = "mounted"
    /\ hidden
    /\ isRealTimeActive
    /\ timers = {}
    /\ lastEvent = "refresh"

\* C9: the visible event keeps the flag, leaves an interval armed exactly when
\* the flag is true, and that interval is recorded and its callback fetches.
C9_VisibleRearmsIffActive ==
    [][VisibleEvent =>
          /\ isRealTimeActive' = isRealTimeActive
          /\ (timers' # {}) <=> isRealTimeActive
          /\ \A t \in timers' :
                t.id = intervalRef' /\ t.active /\ mountedRef']_vars

\* The page came back with the flag on and a tick has fetched since.
C9_Witness ==
    /\ phase = "mounted"
    /\ ~hidden
    /\ isRealTimeActive
    /\ lastEvent = "tick"
    /\ \E f \in inflight : f.src = "tick" /\ \A g \in inflight : g.seq <= f.seq
    /\ ~(\E f \in inflight : f.src = "start")
    /\ updateCount = 1
    /\ fetchSeq = 2
    /\ nTicks = 1
    /\ everStopped

\* C10: a toggle flips the flag, and a toggle that turns it off cancels the
\* timer, leaves none armed and initiates no fetch.
C10_ToggleOffOnlyStops ==
    [][ToggleStep =>
          /\ isRealTimeActive' = ~isRealTimeActive
          /\ ~isRealTimeActive' =>
                /\ timers' = {}
                /\ intervalRef' = NULL
                /\ fetchSeq' = fetchSeq
                /\ inflight' = inflight]_vars

\* A fetchAccountInfo call runs from its await to its end.
CompleteStep == inflight' # inflight /\ inflight' \subseteq inflight

\* C11: a manual refresh initiates exactly one fetch, with loading indication,
\* and changes neither the active flag nor the armed timer nor intervalRef.
C11_ManualRefreshKeepsSchedulerState ==
    [][lastEvent' = "refresh" =>
          /\ fetchSeq' = fetchSeq + 1
          /\ inflight' \ inflight =
                 {[seq |-> fetchSeq', showLoading |-> TRUE, src |-> "manual"]}
          /\ inflight \subseteq inflight'
          /\ isLoading'
          /\ isRealTimeActive' = isRealTimeActive
          /\ timers' = timers
          /\ intervalRef' = intervalRef]_vars

\* A manual refresh has just run while the scheduler was stopped by the toggle.
C11_Witness ==
    /\ lastEvent = "refresh"
    /\ phase = "mounted"
    /\ ~isRealTimeActive
    /\ timers = {}
    /\ \E f \in inflight : f.src = "manual"

\* A manual refresh has just run while the scheduler was running.
C11_WitnessRunning ==
    /\ lastEvent = "refresh"
    /\ phase = "mounted"
    /\ isRealTimeActive
    /\ ~hidden
    /\ timers # {}

\* C12: a fetch that completes while the context is alive publishes its
\* snapshot, sets isConnected, refreshes lastUpdated and adds one to
\* updateCount; updateCount never decreases and equals the number of
\* snapshots published.
C12_CompletionPublishesAndCounts ==
    [][/\ (CompleteStep /\ mountedRef) =>
             /\ accountInfo' # NoAccountInfo
             /\ Len(published') = Len(published) + 1
             /\ isConnected'
             /\ lastUpdated' = clock' /\ lastUpdated' > lastUpdated
             /\ updateCount' = updateCount + 1
       /\ updateCount' >= updateCount
       /\ updateCount = Len(published)
       /\ updateCount' = Len(published')]_vars

\* A scheduled, a manual and a start fetch have all been published.
C12_Witness ==
    /\ phase = "mounted"
    /\ lastEvent = "complete"
    /\ updateCount = 3
    /\ Len(published) = 3
    /\ inflight = {}
    /\ nTicks = 1
    /\ ~everStopped

\* C13: when a fetch completes while the context is alive and an upstream read
\* failed, the published snapshot carries the defaults of the failed source and
\* isConnected becomes false.
C13_FailureFlipsConnected ==
    [][(/\ CompleteStep
        /\ mountedRef
        /\ \/ \A f \in SummaryFields : accountInfo'[f] = defaultAccountInfo[f]
           \/ \A f \in DetailsFields : accountInfo'[f] = defaultAccountInfo[f]) =>
          ~isConnected']_vars

----------------------------------------------------------------------------
\* Claims about the login call (SpecLogin).

\* A string that is empty or holds whitespace only.
Blank(s) == \A i \in 1..Len(s) : s[i] \in Whitespace

\* A string that matches ^\d+$.
AllDigits(s) == Len(s) > 0 /\ \A i \in 1..Len(s) : s[i] \in Digits

\* A loginToMT5 call is running or has just returned.
LoginCalled == loginPc \in {"awaiting", "returned"}

\* C14: for the credentials of every call, validateCredentials returns the
\* error of the first blank field in the order username, password, server; if
\* none is blank, the numeric-account error exactly when the trimmed username
\* is not all digits, and null otherwise.  A call that got an error returns it.
C14_FirstBlankFieldThenNumeric ==
    LoginCalled =>
       LET v == validateCredentials(credentials) IN
       /\ v = IF Blank(credentials.username) THEN Lit("Username is required")
              ELSE IF Blank(credentials.password) THEN Lit("Password is required")
              ELSE IF Blank(credentials.server) THEN Lit("Server is required")
              ELSE IF ~AllDigits(trim(credentials.username))
              THEN Lit("Username must be a valid account number (numeric)")
              ELSE Null
       /\ (v # Null /\ loginPc = "returned") => loginResult = Failure(v)

\* A call whose username is blank and not numeric either returned the
\* username-required error.
C14_Witness ==
    /\ loginPc = "returned"
    /\ credentials = [username |-> <<" ", " ">>, password |-> <<>>,
                      server |-> <<"s">>]
    /\ loginResult.error = Lit("Username is required")

\* The credentials of the call pass validation, in the words of the
\* specification: no field blank and the trimmed username all digits.
CredentialsValid ==
    /\ ~Blank(credentials.username)
    /\ ~Blank(credentials.password)
    /\ ~Blank(credentials.server)
    /\ AllDigits(trim(credentials.username))

\* C15: a loginToMT5 call has issued no network request when validation of its
\* credentials fails and exactly one when it passes, while it waits and after
\* it has returned, whatever the request ended in; there is never a second one.
C15_RequestOnlyAfterValidation ==
    /\ Len(requests) <= 1
    /\ LoginCalled => Len(requests) = (IF CredentialsValid THEN 1 ELSE 0)
    /\ (LoginCalled /\ ~CredentialsValid) => response = NoResponse

\* A call with a blank password has returned its failure without a request.
C15_Witness ==
    /\ loginPc = "returned"
    /\ credentials = [username |-> <<"7">>, password |-> <<" ">>,
                      server |-> <<"s">>]
    /\ requests = <<>>
    /\ ~loginResult.success
    /\ loginResult.error = Lit("Password is required")

\* A call with valid credentials has returned after a server error with the
\* one request it made.
C15_WitnessNoRetry ==
    /\ loginPc = "returned"
    /\ response.kind = "response"
    /\ response.status = 500
    /\ requests = <<[user |-> <<"7">>, password |-> <<"p">>, server |-> <<"s">>]>>
    /\ ~loginResult.success

\* The login fetch of the call that has returned ended in a response.
LoginResponded == loginPc = "returned" /\ response.kind = "response"

\* C16: a loginToMT5 call that issued its request returns success exactly when
\* the response has status 200 and its body passes validateToken, and the
\* token is then the trimmed body; status 200 with a body that fails
\* validateToken returns the token-rejected failure, and every other status
\* returns a failure.
C16_SuccessIffStatus200AndValidToken ==
    (loginPc = "returned" /\ requests # <<>>) =>
       /\ loginResult.success <=>
             /\ response.kind = "response"
             /\ response.status = 200
             /\ response.readable
             /\ validateToken(response.text)
       /\ loginResult.success => loginResult.token = Str(trim(response.text))
       /\ (/\ response.kind = "response"
           /\ response.status = 200
           /\ response.readable
           /\ ~validateToken(response.text)) =>
             loginResult = Failure(Lit("Invalid authentication token received"))
       /\ (response.kind = "response" /\ response.status # 200) =>
             /\ ~loginResult.success
             /\ loginResult.error # Undefined

\* Status 200 with a token between whitespace returned the token without it.
C16_Witness ==
    /\ LoginResponded
    /\ response.status = 200
    /\ response.text = Body_tokenPadded.text
    /\ loginResult = Success(Str(Body_token.text))

\* Status 200 with the body "error: invalid user" returned the token-rejected
\* failure, and status 201 with a well-formed token returned a failure.
C16_WitnessRejected ==
    /\ LoginResponded
    /\ \/ /\ response.status = 200
          /\ response.text = Body_errorInvalidUser.text
          /\ loginResult.error = Lit("Invalid authentication token received")
       \/ /\ response.status = 201
          /\ response.text = Body_token.text
          /\ ~loginResult.success

\* The Token Validator rules of the specification, applied to a token.
TokenRules(t) ==
    /\ Len(t) >= MinTokenLength
    /\ \A keyword \in errorKeywords : ~includes(toLowerCase(t), keyword)

\* C17: the token of every successful loginToMT5 result, and so the token App
\* holds and passes to the Dashboard, has at least ten characters and
\* contains none of the error keywords in any letter case.
C17_IssuedTokenPassesValidator ==
    /\ (loginPc = "returned" /\ loginResult.success) =>
          TokenRules(loginResult.token.chars)
    /\ (isAuthenticated /\ Truthy(authToken)) => TokenRules(authToken.chars)

\* App renders the Dashboard with the three-character token "abc".
C17_ShortTokenHeld ==
    /\ isAuthenticated
    /\ authToken = Str(<<"a", "b", "c">>)

\* The response of the call that has returned says its body is JSON.
SaysJson ==
    /\ response.contentType # Null
    /\ includes(response.contentType.chars, ApplicationJson)

\* The login fetch ended in a response with a status other than 200.
LoginRefused == LoginResponded /\ response.status # 200

\* C18 as stated: for a response with a status other than 200 the failure
\* message is the JSON body's message field, else its error field, when the
\* content type says JSON; otherwise the raw response text; otherwise
\* "HTTP Error: {status}".
C18_MessageElseTextElseHttpError ==
    LoginRefused =>
       /\ ~loginResult.success
       /\ LET jsonField ==
                 IF SaysJson /\ response.readable /\ response.json.parse = "object"
                 THEN Or(response.json.message, response.json.error)
                 ELSE Undefined
          IN  IF Truthy(jsonField) THEN loginResult.error = jsonField
              ELSE IF response.readable /\ response.text # <<>>
              THEN loginResult.error \in
                      {Str(response.text),
                       StatusMessage("HTTP Error: ", response.status)}
              ELSE loginResult.error =
                      StatusMessage("HTTP Error: ", response.status)

\* C18, amended: when the content type says JSON and the body parses to an
\* object, the message is its message field, else its error field, else
\* "API Error: {status}"; when the content type does not say JSON and the body
\* can be read, it is the raw text, else "HTTP Error: {status}" for an empty
\* body; when the body cannot be read or parsed, or parses to null, it is
\* "Network Error: {status} {statusText}".
C18_ApiFailureMessage ==
    LoginRefused =>
       /\ ~loginResult.success
       /\ loginResult.error =
             IF ~response.readable
             THEN StatusTextMessage("Network Error: ", response.status,
                                    statusText(response.status))
             ELSE IF SaysJson
             THEN IF response.json.parse # "object"
                  THEN StatusTextMessage("Network Error: ", response.status,
                                         statusText(response.status))
                  ELSE IF Truthy(response.json.message)
                  THEN response.json.message
                  ELSE IF Truthy(response.json.error)
                  THEN response.json.error
                  ELSE StatusMessage("API Error: ", response.status)
             ELSE IF response.text # <<>>
             THEN Str(response.text)
             ELSE StatusMessage("HTTP Error: ", response.status)

\* Status 201 with the JSON body {"message":"Server not found"} returned the
\* failure "Server not found".
C18_Witness ==
    /\ LoginRefused
    /\ response.status = 201
    /\ SaysJson
    /\ response.text = Body_jsonMessage.text
    /\ loginResult = Failure(Str(Body_serverNotFound.text))

\* Status 500 with the JSON body {} returned "API Error: 500".
C18_WitnessApiError ==
    /\ LoginRefused
    /\ SaysJson
    /\ response.text = Body_jsonEmptyObject.text
    /\ loginResult.error = StatusMessage("API Error: ", 500)

\* C19: every loginToMT5 call ends with a value, never an exception: success
\* with a token string, or a failure with a non-empty message; when the fetch
\* rejects with a TypeError the failure is the network one, with an AbortError
\* the timeout one, with any other Error the failure carries its message, and
\* with a thrown value that is no Error it is the generic unknown one.
C19_AlwaysAResultValue ==
    (loginPc = "returned") =>
       /\ ~loginResult.thrown
       /\ IF loginResult.success
          THEN loginResult.token.kind = "string" /\ loginResult.error = Undefined
          ELSE Truthy(loginResult.error) /\ loginResult.token = Undefined
       /\ response.kind = "rejected" =>
             loginResult =
                Failure(CASE response.error = TypeError ->
                               Lit("Network connection failed. Please check your internet connection.")
                          [] response.error = AbortError ->
                               Lit("Request timeout. Please try again.")
                          [] response.error = OtherError -> OtherError.message
                          [] OTHER -> Lit("An unexpected error occurred"))
       /\ (response.kind = "response" /\ ~response.readable) =>
             ~loginResult.success

\* The fetch of a call rejected with an AbortError and the call returned the
\* timeout failure.
C19_Witness ==
    /\ loginPc = "returned"
    /\ response = [kind |-> "rejected", error |-> AbortError]
    /\ loginResult = Failure(Lit("Request timeout. Please try again."))

\* The fetch rejected with a TypeError and the call returned the network
\* failure.
C19_WitnessNetwork ==
    /\ loginPc = "returned"
    /\ response = [kind |-> "rejected", error |-> TypeError]
    /\ ~loginResult.success
    /\ loginResult.error =
          Lit("Network connection failed. Please check your internet connection.")

----------------------------------------------------------------------------
\* Claims about getAccountInfo (SpecFetch).

\* A field that holds a value.
Populated(v) == v.kind \in {"number", "string", "literal"}

\* An exception escaped the try block of the call: a fetch rejected or threw.
ExceptionEscaped ==
    \E o \in {summaryOutcome, detailsOutcome} : o.kind \in {"rejected", "throws"}

\* The upstream response o returned a value for field f: it is a 2xx response
\* whose body parses to an object that has a non-null f.
Returned(o, f) ==
    /\ o.kind = "response"
    /\ o.status \in 200..299
    /\ o.json.parse = "object"
    /\ o.json.fields[f] \notin {Null, Undefined}

\* C20: every getAccountInfo call returns a snapshot with exactly the eleven
\* fields, each holding a value, whatever the token and whatever the two reads
\* ended in; it is the all-defaults snapshot when the token is blank or an
\* exception escaped; otherwise a field holds what its source returned for it,
\* and its default when the source returned nothing.
C20_AlwaysFullSnapshot ==
    (callPc = "returned") =>
       /\ DOMAIN snapshot = AccountFields
       /\ Cardinality(DOMAIN snapshot) = 11
       /\ \A f \in AccountFields : Populated(snapshot[f])
       /\ Blank(callToken) => snapshot = defaultAccountInfo
       /\ (~Blank(callToken) /\ ExceptionEscaped) => snapshot = defaultAccountInfo
       /\ (~Blank(callToken) /\ ~ExceptionEscaped) =>
             \A f \in AccountFields :
                LET o == IF f \in SummaryFields THEN summaryOutcome
                         ELSE detailsOutcome
                IN  snapshot[f] = IF Returned(o, f) THEN o.json.fields[f]
                                  ELSE defaultAccountInfo[f]

\* A call whose summary body has a zero balance, a null equity and no margin,
\* and whose details read got a 500, returned the zero, and defaults for the
\* rest.
C20_Witness ==
    /\ callPc = "returned"
    /\ callToken = Token
    /\ summaryOutcome = JsonResponse(200, Summary_partial)
    /\ detailsOutcome = JsonResponse(500, JsonError)
    /\ snapshot.balance = Num(0)
    /\ snapshot.equity = defaultAccountInfo.equity
    /\ snapshot.currency = Str(<<>>)
    /\ snapshot.accountNumber = Lit("N/A")

\* A call whose details fetch rejected returned the all-defaults snapshot
\* although the summary read was good.
C20_WitnessEscaped ==
    /\ callPc = "returned"
    /\ summaryOutcome = JsonResponse(200, Summary_full)
    /\ detailsOutcome = FetchRejects
    /\ snapshot = defaultAccountInfo

\* The read that ended in o counts as absent: its status is not a 2xx one, or
\* its body does not parse.
SourceAbsent(o) ==
    /\ o.kind = "response"
    /\ o.status \notin 200..299 \/ o.json.parse = "error"

\* The outcome of the read that field f is taken from.
SourceOf(f) == IF f \in SummaryFields THEN summaryOutcome ELSE detailsOutcome

\* Both reads of the call that has returned ended in a response.
BothResponded ==
    /\ callPc = "returned"
    /\ summaryOutcome.kind = "response"
    /\ detailsOutcome.kind = "response"

\* C21: when both reads of a getAccountInfo call end in a response, every
\* field of a source with a non-2xx status or an unparseable body holds its
\* default, whatever the other source's body has for it, and every field holds
\* the value its own source's parsed body has for it, or its default when that
\* body has none: never a value of the other source's body.
C21_SourcesMergedIndependently ==
    BothResponded =>
       \A f \in AccountFields :
          /\ SourceAbsent(SourceOf(f)) => snapshot[f] = defaultAccountInfo[f]
          /\ Returned(SourceOf(f), f) => snapshot[f] = SourceOf(f).json.fields[f]
          /\ snapshot[f] \in
                {defaultAccountInfo[f]}
                \cup (IF Returned(SourceOf(f), f)
                      THEN {SourceOf(f).json.fields[f]} ELSE {})

\* The summary read got a 500 and the details read the body
\* {"accountNumber":"12345"}: the snapshot has that account number and the
\* summary fields at their defaults.
C21_Witness ==
    /\ BothResponded
    /\ summaryOutcome = JsonResponse(500, JsonError)
    /\ detailsOutcome = JsonResponse(200, Details_accountNumberOnly)
    /\ snapshot.accountNumber = Str(<<"1", "2", "3", "4", "5">>)
    /\ snapshot.balance = Num(0)
    /\ snapshot.currency = Lit("USD")
    /\ snapshot.leverage = Num(0)

\* The details body carries a balance and a currency and the summary read
\* failed: the snapshot has the default balance and currency.
C21_WitnessForeign ==
    /\ BothResponded
    /\ SourceAbsent(summaryOutcome)
    /\ detailsOutcome = JsonResponse(200, Details_foreign)
    /\ snapshot.balance = Num(0)
    /\ snapshot.currency = Lit("USD")
    /\ snapshot.accountName = Str(<<"B", "o">>)

\* C22: whatever the other read of a getAccountInfo call ended in, a rejection
\* included, every field a read returned successfully holds that value in the
\* snapshot.
C22_FailureKeepsOtherSource ==
    (callPc = "returned" /\ ~Blank(callToken)) =>
       \A f \in AccountFields :
          Returned(SourceOf(f), f) => snapshot[f] = SourceOf(f).json.fields[f]

\* The summary read returned a full body, the details fetch rejected, and the
\* snapshot has the default balance.
C22_SummaryDiscarded ==
    /\ callPc = "returned"
    /\ summaryOutcome = JsonResponse(200, Summary_full)
    /\ detailsOutcome = FetchRejects
    /\ snapshot.balance = Num(0)

\* C23: a getAccountInfo call with an empty or whitespace-only token returns
\* the snapshot balance 0, equity 0, margin 0, freeMargin 0, marginLevel 0,
\* currency "USD", profit 0, accountNumber, accountName and serverName "N/A",
\* leverage 0, and has issued no request and started no read.
C23_BlankTokenDefaultsWithoutRequest ==
    (callPc # "idle" /\ Blank(callToken)) =>
       /\ callPc = "returned"
       /\ callRequests = <<>>
       /\ summaryOutcome = NoResponse
       /\ detailsOutcome = NoResponse
       /\ snapshot = [balance |-> Num(0), equity |-> Num(0), margin |-> Num(0),
                      freeMargin |-> Num(0), marginLevel |-> Num(0),
                      currency |-> Lit("USD"), profit |-> Num(0),
                      accountNumber |-> Lit("N/A"), accountName |-> Lit("N/A"),
                      serverName |-> Lit("N/A"), leverage |-> Num(0)]

\* A call with the token " " has returned.
C23_Witness ==
    /\ callPc = "returned"
    /\ callToken = <<" ">>
    /\ callRequests = <<>>
    /\ snapshot.currency = Lit("USD")

\* A call with a well-formed token has started both reads.
C23_WitnessRequests ==
    /\ callPc = "awaiting"
    /\ callToken = Token
    /\ Len(callRequests) = 2

\* C25: a getAccountInfo call that started its two reads has returned only
\* when both have completed, each with a response or a failure.
C25_ReturnsAfterBothReads ==
    (callPc = "returned" /\ callRequests # <<>>) =>
       /\ summaryOutcome # NoResponse
       /\ detailsOutcome # NoResponse

\* The call has returned the defaults after the details fetch rejected, with
\* the summary read still outstanding.
C25_ReturnedWhileReading ==
    /\ callPc = "returned"
    /\ Len(callRequests) = 2
    /\ summaryOutcome = NoResponse
    /\ detailsOutcome = FetchRejects
    /\ snapshot = defaultAccountInfo

----------------------------------------------------------------------------
\* Claims about validateToken and the App session (SpecLogin).

\* Two characters that are the same letter in either case, or equal.
SameLetter(a, b) ==
    \/ a = b
    \/ \E n \in 1..26 : {a, b} = {UpperCase[n], LowerCase[n]}

\* The token t contains the keyword k, whatever the case of its letters.
ContainsIgnoringCase(t, k) ==
    \E i \in 1..(Len(t) - Len(k) + 1) :
       \A j \in 1..Len(k) : SameLetter(t[i + j - 1], k[j])

\* The login fetch ended in a 200 response whose body was read: validateToken
\* has run on the body.
TokenValidated ==
    /\ LoginResponded
    /\ response.status = 200
    /\ response.readable

\* C27: validateToken is false for a body exactly when the body is empty, is
\* shorter than 10 characters, or contains one of error, invalid, failed,
\* denied, unauthorized in any letter case; the login call that validated the
\* body succeeded exactly when it is true.
C27_ValidateTokenRules ==
    TokenValidated =>
       /\ ~validateToken(response.text) <=>
             \/ response.text = <<>>
             \/ Len(response.text) < 10
             \/ \E keyword \in errorKeywords :
                   ContainsIgnoringCase(response.text, keyword)
       /\ loginResult.success <=> validateToken(response.text)

\* The body "ACCESS DENIED 01", long enough and with a keyword in capitals,
\* was rejected.
C27_Witness ==
    /\ TokenValidated
    /\ response.text = Body_accessDenied.text
    /\ loginResult = Failure(Lit("Invalid authentication token received"))

\* A body of nine characters was rejected and one of ten accepted.
C27_WitnessNine ==
    /\ TokenValidated
    /\ response.text = Body_nineChars.text
    /\ ~loginResult.success

C27_WitnessTen ==
    /\ TokenValidated
    /\ response.text = Body_tenChars.text
    /\ loginResult.success

\* App renders the Dashboard, and not the login form.
DashboardRendered == isAuthenticated /\ Truthy(authToken)

\* handleLogin resumes with the result of loginToMT5.
ResumeStep == loginPc = "returned" /\ loginPc' = "idle"

\* The result handleLogin resumes with is a success with a non-empty token.
LoginSucceeded ==
    ~loginResult.thrown /\ loginResult.success /\ Truthy(loginResult.token)

\* C28: in every state of the App session isAuthenticated is true exactly when
\* authToken is a non-empty token; a login that failed leaves both as they
\* were, a login that succeeded sets both, and a logout clears both.
C28_AuthenticatedIffToken ==
    [][/\ isAuthenticated <=> (authToken # Null /\ Truthy(authToken))
       /\ isAuthenticated' <=> (authToken' # Null /\ Truthy(authToken'))
       /\ (ResumeStep /\ ~LoginSucceeded) =>
             UNCHANGED <<isAuthenticated, authToken>>
       /\ (ResumeStep /\ LoginSucceeded) =>
             isAuthenticated' /\ authToken' = loginResult.token
       /\ (isAuthenticated /\ ~isAuthenticated') =>
             authToken' = Null /\ loginPc' = loginPc
       /\ (~isAuthenticated /\ isAuthenticated') => ResumeStep]_vars

\* A login whose 200 response has a body of ten blanks, which loginToMT5 reports
\* as a success with the empty token, has left the session unauthenticated.
C28_Witness ==
    /\ loginPc = "idle"
    /\ ~isAuthenticated
    /\ authToken = Null
    /\ error = Lit("Login failed. Please check your credentials.")

\* A login has succeeded and the Dashboard is rendered with its token.
C28_WitnessAuthenticated ==
    /\ DashboardRendered
    /\ authToken = Str(Token)
    /\ loginPc = "idle"

\* The Dashboard is mounted only while App holds the flag and the token.
C28_DashboardOnlyWhileAuthenticated ==
    phase = "mounted" => DashboardRendered

----------------------------------------------------------------------------
\* Claim about the loading indication (Spec).

\* A fetch started with the loading indication is outstanding.
LoadingFetchOutstanding == \E f \in inflight : f.showLoading

\* C29: while the Dashboard is mounted and its context alive, isLoading is true
\* exactly when at least one fetch started with the loading indication is
\* outstanding, and a step that only starts or completes background fetches
\* leaves isLoading alone.
C29_LoadingTracksOutstanding ==
    [][/\ (phase = "mounted" /\ mountedRef) =>
             (isLoading <=> LoadingFetchOutstanding)
       /\ (phase' = "mounted" /\ mountedRef') =>
             (isLoading' <=> LoadingFetchOutstanding')
       /\ (\A f \in (inflight \ inflight') \cup (inflight' \ inflight) :
              ~f.showLoading) => isLoading' = isLoading]_vars

\* Two loading fetches overlapped, one has completed, and isLoading is false
\* with the other still outstanding.
C29_LoadingClearedEarly ==
    /\ phase = "mounted"
    /\ mountedRef
    /\ lastEvent = "complete"
    /\ ~isLoading
    /\ LoadingFetchOutstanding

====
